---- MODULE Spec2Model ----
(***************************************************************************)
(* A model of createForm (src/lib/createForm.ts): the closure state of one *)
(* form (refs, _validators, fields, formState), the bound DOM elements,    *)
(* and the operations register / input event / submitForm / settlement of  *)
(* the awaited onSubmit call.                                              *)
(*                                                                         *)
(* JavaScript values are tagged records [t |-> tag, v |-> payload]; text   *)
(* is a sequence of one-character strings, so that parseInt and String     *)
(* are computed character by character.                                    *)
(***************************************************************************)
EXTENDS Integers, Sequences, FiniteSets, TLC

VARIABLES
    form,         \* the form created: keyof Values and the initialValues option
    refs,         \* refs: field key -> bound element
    elements,     \* the DOM elements: type, value, checked
    focused,      \* the element holding DOM focus, or NoElement
    _validators,  \* _validators: field key -> recorded validator entry
    vorder,       \* the own-key order of _validators (property insertion order)
    fields,       \* the fields store
    formState,    \* the formState store
    pending,      \* onSubmit calls awaited by a submitForm invocation
    promises,     \* the promise each submitForm invocation returned
    onSubmitCalls, \* how many times options.onSubmit has been called
    consoleErrors, \* how many times console.error has been called
    isLoadingWrites, \* how many times formState.isLoading has been set
    declared      \* per key, the messages among the validators last passed

vars == <<form, refs, elements, focused, _validators, vorder, fields,
          formState, pending, promises, onSubmitCalls, consoleErrors,
          isLoadingWrites, declared>>

(***************************************************************************)
(* Bounds of the model.                                                    *)
(***************************************************************************)
\* submitForm invocations explored
MaxSubmits == 2

(***************************************************************************)
(* JavaScript values.                                                      *)
(***************************************************************************)
Str(s)  == [t |-> "string", v |-> s]
Num(n)  == [t |-> "number", v |-> n]
Bool(b) == [t |-> "boolean", v |-> b]
NaN     == [t |-> "NaN", v |-> 0]
Undefined == [t |-> "undefined", v |-> 0]

typeof(x) == IF x.t = "NaN" THEN "number" ELSE x.t

Digits == <<"0", "1", "2", "3", "4", "5", "6", "7", "8", "9">>

IsDigit(c) == \E i \in 1..10 : Digits[i] = c

DigitVal(c) == (CHOOSE i \in 1..10 : Digits[i] = c) - 1

RECURSIVE SkipWhite(_)
SkipWhite(s) ==
    IF s # <<>> /\ Head(s) = " " THEN SkipWhite(Tail(s)) ELSE s

RECURSIVE DigitPrefix(_)
DigitPrefix(s) ==
    IF s # <<>> /\ IsDigit(Head(s)) THEN <<Head(s)>> \o DigitPrefix(Tail(s))
    ELSE <<>>

RECURSIVE DecimalValue(_)
DecimalValue(ds) ==
    IF ds = <<>> THEN 0
    ELSE 10 * DecimalValue(SubSeq(ds, 1, Len(ds) - 1)) + DigitVal(ds[Len(ds)])

\* parseInt(text) with no radix: leading white space is skipped, an optional
\* sign is read, then the longest prefix of decimal digits; NaN when there
\* is no digit.
parseInt(text) ==
    LET s    == SkipWhite(text)
        neg  == s # <<>> /\ Head(s) = "-"
        body == IF s # <<>> /\ Head(s) \in {"-", "+"} THEN Tail(s) ELSE s
        ds   == DigitPrefix(body)
    IN  IF ds = <<>> THEN NaN
        ELSE Num(IF neg THEN 0 - DecimalValue(ds) ELSE DecimalValue(ds))

RECURSIVE NatToText(_)
NatToText(n) ==
    IF n < 10 THEN <<Digits[n + 1]>>
    ELSE NatToText(n \div 10) \o <<Digits[(n % 10) + 1]>>

\* String(x)
String(x) ==
    CASE x.t = "string"    -> x.v
      [] x.t = "number"    -> IF x.v < 0 THEN <<"-">> \o NatToText(0 - x.v)
                              ELSE NatToText(x.v)
      [] x.t = "boolean"   -> IF x.v THEN <<"t", "r", "u", "e">>
                              ELSE <<"f", "a", "l", "s", "e">>
      [] x.t = "NaN"       -> <<"N", "a", "N">>
      [] x.t = "undefined" -> <<"u", "n", "d", "e", "f", "i", "n", "e", "d">>

\* Boolean(x)
Boolean(x) ==
    CASE x.t = "string"    -> x.v # <<>>
      [] x.t = "number"    -> x.v # 0
      [] x.t = "boolean"   -> x.v
      [] x.t = "NaN"       -> FALSE
      [] x.t = "undefined" -> FALSE

(***************************************************************************)
(* The form's value type and the elements its fields are bound to.  Each   *)
(* key's register(...) result is spread onto one element, so an element is *)
(* identified by the key it is bound to; its type attribute is fixed.      *)
(***************************************************************************)
Keys == {"username", "age", "agree"}

NoElement == "none"

ElementOf(key) == key

ElementType(el) ==
    CASE el = "username" -> "text"
      [] el = "age"      -> "number"
      [] el = "agree"    -> "checkbox"

\* The texts a user can leave in an element of each type.
Texts(type) ==
    CASE type = "text"     -> {<<>>, <<"a", "b", "c">>}
      [] type = "number"   -> {<<>>, <<"4", "2">>, <<"4", ".", "7">>}
      [] type = "checkbox" -> {<<"o", "n">>}

\* The failure messages and validator sequences a caller passes to register
\* for a key: every key has a "Required" rule evaluated to a message or to a
\* boolean; agree also has a rule whose message is the empty string.
Required == [t |-> "string", v |-> "Required"]
EmptyMessage == [t |-> "string", v |-> ""]

NoValidators == <<[t |-> "undefined", v |-> 0]>>

ValidatorSeqs(key) ==
    { NoValidators,
      <<>>,
      <<Required>>,
      <<Bool(TRUE), Bool(FALSE)>>,
      <<Required, Bool(FALSE)>>,
      <<Bool(TRUE), Required>> }
    \cup (IF key = "agree" THEN {<<EmptyMessage>>, <<Bool(TRUE)>>} ELSE {})

EmptyMap == [k \in {} |-> Undefined]

Put(f, k, x) == [y \in DOMAIN f \cup {k} |-> IF y = k THEN x ELSE f[y]]

Get(f, k) == IF k \in DOMAIN f THEN f[k] ELSE Undefined

Object(f) == [t |-> "object", v |-> f]

\* The forms explored: the keys of the value type and the initialValues option
\* (absent, or a mapping that may lack a key).
Forms ==
    { [keys |-> {"username", "age"}, initialValues |-> Undefined],
      [keys |-> {"agree"},           initialValues |-> Undefined],
      [keys |-> {"age"},             initialValues |-> Object([k \in {"age"} |-> Num(7)])],
      [keys |-> {"username"},        initialValues |-> Object(EmptyMap)] }

Init ==
    /\ form \in Forms
    /\ refs = EmptyMap
    /\ elements = [el \in Keys |->
                     [type |-> ElementType(el),
                      value |-> IF ElementType(el) = "checkbox" THEN <<"o", "n">> ELSE <<>>,
                      checked |-> FALSE]]
    /\ focused = NoElement
    /\ _validators = EmptyMap
    /\ vorder = <<>>
    /\ fields = IF form.initialValues = Undefined THEN EmptyMap
                ELSE form.initialValues.v
    /\ formState = [isDirty |-> FALSE, dirtyFields |-> <<>>, touchedFields |-> <<>>,
                    submitCount |-> 0, isLoading |-> FALSE, isValid |-> FALSE,
                    errors |-> EmptyMap]
    /\ pending = {}
    /\ promises = <<>>
    /\ onSubmitCalls = 0
    /\ consoleErrors = 0
    /\ isLoadingWrites = 0
    /\ declared = EmptyMap

(***************************************************************************)
(* _setAdequateValue                                                       *)
(***************************************************************************)
Includes(seq, x) == \E i \in 1..Len(seq) : seq[i] = x

\* A variant that stores a number element's text unparsed.
AdequateValueRaw(ref) ==
    IF ref.type = "checkbox" THEN Bool(ref.checked) ELSE Str(ref.value)

\* The value written to fields[key], by the element's type.
AdequateValue(ref) ==
    IF ref.type = "number" THEN parseInt(ref.value)
    ELSE IF ref.type = "checkbox" THEN Bool(ref.checked)
    ELSE Str(ref.value)

\* A variant that keeps only the key touched last.
TouchedAfterLatest(prev, key) == <<key>>

TouchedAfter(prev, key) == IF ~Includes(prev, key) THEN Append(prev, key) ELSE prev

(***************************************************************************)
(* _setInitialValues                                                       *)
(***************************************************************************)
SetInitialValues(ref, key) ==
    IF form.initialValues # Undefined
    THEN LET x == Get(form.initialValues.v, key)
         IN  IF ref.type = "number" THEN [ref EXCEPT !.value = String(x)]
             ELSE IF ref.type = "checkbox" THEN [ref EXCEPT !.checked = Boolean(x)]
             ELSE [ref EXCEPT !.value = String(x)]
    ELSE ref

(***************************************************************************)
(* _validate                                                               *)
(***************************************************************************)
\* The loop over the keys of _validators: acc carries the local errors,
\* firstErrorKey and the element focused so far.
RECURSIVE ValidateLoop(_, _, _)
ValidateLoop(i, shouldFocus, acc) ==
    IF i > Len(vorder) THEN acc
    ELSE LET key       == vorder[i]
             validator == _validators[key]
         IN  IF typeof(validator) = "string"
             THEN LET first == IF acc.firstErrorKey = NoElement THEN key
                               ELSE acc.firstErrorKey
                  IN  ValidateLoop(i + 1, shouldFocus,
                        [errors        |-> Put(acc.errors, key, validator.v),
                         firstErrorKey |-> first,
                         focused       |-> IF shouldFocus /\ first \in DOMAIN refs
                                           THEN refs[first] ELSE acc.focused])
             ELSE ValidateLoop(i + 1, shouldFocus, acc)

\* A variant in which every pass focuses, whatever shouldFocus says.
ValidateRunFocusing(shouldFocus) ==
    ValidateLoop(1, TRUE,
                 [errors |-> EmptyMap, firstErrorKey |-> NoElement, focused |-> focused])

ValidateRun(shouldFocus) ==
    ValidateLoop(1, shouldFocus,
                 [errors |-> EmptyMap, firstErrorKey |-> NoElement, focused |-> focused])

\* A variant that reads the errors the store holds, not those of this pass.
IsFormValidStale(errors) == DOMAIN formState.errors = {}

\* Object.keys(errors).length === 0
IsFormValid(errors) == DOMAIN errors = {}

\* A variant that starts publishing one submission late.
PublishesErrorsLate(submitCount) == submitCount > 1

\* A variant that publishes on every pass (no gate on submitCount).
PublishesErrorsAlways(submitCount) == TRUE

\* Whether the pass publishes its errors: formState.submitCount > 0
PublishesErrors(submitCount) == submitCount > 0

\* A variant that merges the new errors into the old ones.
reconcileMerged(prev, errors) ==
    [k \in DOMAIN prev \cup DOMAIN errors |->
        IF k \in DOMAIN errors THEN errors[k] ELSE prev[k]]

\* formState after a pass that found `errors`, starting from store fs.
\* reconcile(errors) applied to the errors held by the store: the store's
\* errors become exactly `errors` (keys not in it are removed).
reconcile(prev, errors) == errors

ValidatedState(fs, errors) ==
    [fs EXCEPT !.errors  = IF PublishesErrors(fs.submitCount)
                           THEN reconcile(@, errors) ELSE @,
               !.isValid = IsFormValid(errors)]

(***************************************************************************)
(* register(key, validators).ref(element)                                  *)
(***************************************************************************)
\* for (const validator of validators) _validators[key] = validator
RECURSIVE RecordValidators(_, _, _)
RecordValidators(vs, key, validators) ==
    IF validators = <<>> THEN vs
    ELSE RecordValidators(Put(vs, key, Head(validators)), key, Tail(validators))

Register(key, validators) ==
    LET instance == ElementOf(key)
        given    == validators # NoValidators
        vs       == IF given THEN RecordValidators(_validators, key, validators)
                    ELSE _validators
    IN  /\ refs' = Put(refs, key, instance)
        /\ elements' = [elements EXCEPT ![instance] = SetInitialValues(@, key)]
        /\ _validators' = vs
        /\ vorder' = IF key \in DOMAIN vs /\ ~Includes(vorder, key)
                     THEN Append(vorder, key) ELSE vorder
        /\ declared' = IF given /\ validators # <<>>
                       THEN Put(declared, key,
                                {validators[i].v : i \in {j \in 1..Len(validators) :
                                                     typeof(validators[j]) = "string"}})
                       ELSE declared
        /\ UNCHANGED <<form, focused, fields, formState, pending, promises,
                       onSubmitCalls, consoleErrors, isLoadingWrites>>

(***************************************************************************)
(* The input listener added by register: the user leaves `text`/`checked` *)
(* in the element bound to key, and the element's input event fires.  An   *)
(* element registered several times carries several copies of the same     *)
(* listener; running the copies one after another yields what one does.    *)
(***************************************************************************)
Input(key, text, checked) ==
    /\ key \in DOMAIN refs
    /\ LET instance == refs[key]
           ref      == [elements[instance] EXCEPT !.value = text, !.checked = checked]
           fs       == [formState EXCEPT !.isDirty = TRUE,
                                         !.touchedFields = TouchedAfter(@, key)]
           run      == ValidateRun(FALSE)
       IN  /\ elements' = [elements EXCEPT ![instance] = ref]
           /\ fields' = Put(fields, key, AdequateValue(ref))
           /\ formState' = ValidatedState(fs, run.errors)
           /\ focused' = run.focused
    /\ UNCHANGED <<form, refs, _validators, vorder, pending, promises,
                   onSubmitCalls, consoleErrors, isLoadingWrites, declared>>

(***************************************************************************)
(* submitForm                                                              *)
(***************************************************************************)
HasStringValidator == \E k \in DOMAIN _validators : typeof(_validators[k]) = "string"

\* A variant whose catch rethrows.
SubmitPromiseRethrown(outcome) ==
    IF outcome \in {"throw", "reject"} THEN "rejected" ELSE "fulfilled"

\* The state of the promise submitForm returned once its try/catch/finally
\* has run with the handler settled as `outcome`: the catch swallows.
SubmitPromise(outcome) == "fulfilled"

\* catch (error) { console.error(error) }
Caught(outcome) == IF outcome \in {"throw", "reject"} THEN 1 ELSE 0

\* A variant that counts only the submissions that pass validation.
CountedWhenValid(fs) ==
    IF HasStringValidator THEN fs ELSE [fs EXCEPT !.submitCount = @ + 1]

\* setFormState("submitCount", (prev) => prev + 1)
Counted(fs) == [fs EXCEPT !.submitCount = @ + 1]

\* A variant whose cleanup leaves isLoading as it is.
FinallySkipped(fs) == fs

\* finally { setFormState("isLoading", false) }
Finally(fs) == [fs EXCEPT !.isLoading = FALSE]

\* submitForm up to its await: `behaviour` is what options.onSubmit does when
\* called: "throws" (synchronously) or "awaits" (returns a value or promise
\* whose settlement resumes submitForm later).  The handler is given the
\* fields store itself, so it reads whatever the store holds when it looks.
SubmitForm(behaviour) ==
    /\ formState.submitCount < MaxSubmits
    /\ LET counted == Counted(formState)
           run     == ValidateRun(TRUE)
           checked == ValidatedState(counted, run.errors)
       IN  /\ focused' = run.focused
           /\ IF ~IsFormValid(run.errors)
              THEN /\ formState' = checked
                   /\ promises' = Append(promises, "fulfilled")
                   /\ UNCHANGED <<pending, onSubmitCalls, consoleErrors, isLoadingWrites>>
              ELSE IF behaviour = "throws"
              THEN /\ formState' = Finally([checked EXCEPT !.isLoading = TRUE])
                   /\ isLoadingWrites' = isLoadingWrites + 2
                   /\ promises' = Append(promises, SubmitPromise("throw"))
                   /\ onSubmitCalls' = onSubmitCalls + 1
                   /\ consoleErrors' = consoleErrors + Caught("throw")
                   /\ UNCHANGED pending
              ELSE /\ formState' = [checked EXCEPT !.isLoading = TRUE]
                   /\ isLoadingWrites' = isLoadingWrites + 1
                   /\ promises' = Append(promises, "pending")
                   /\ onSubmitCalls' = onSubmitCalls + 1
                   /\ pending' = pending \cup
                        {[id |-> Len(promises) + 1, alone |-> pending = {}]}
                   /\ UNCHANGED consoleErrors
    /\ UNCHANGED <<form, refs, elements, _validators, vorder, fields, declared>>

\* The awaited onSubmit call of submission s settles ("resolve" or "reject")
\* and submitForm resumes: catch (on reject), then finally.
Settle(s, outcome) ==
    /\ s \in pending
    /\ formState' = Finally(formState)
    /\ isLoadingWrites' = isLoadingWrites + 1
    /\ pending' = pending \ {s}
    /\ promises' = [promises EXCEPT ![s.id] = SubmitPromise(outcome)]
    /\ consoleErrors' = consoleErrors + Caught(outcome)
    /\ UNCHANGED <<form, refs, elements, focused, _validators, vorder, fields,
                   onSubmitCalls, declared>>

RegisterStep ==
    \E key \in form.keys : \E validators \in ValidatorSeqs(key) :
        Register(key, validators)

InputStep ==
    \E key \in DOMAIN refs : \E text \in Texts(ElementType(refs[key])) :
        \E checked \in (IF ElementType(refs[key]) = "checkbox" THEN BOOLEAN ELSE {FALSE}) :
            Input(key, text, checked)

SubmitStep == \E behaviour \in {"throws", "awaits"} : SubmitForm(behaviour)

SettleStep == \E s \in pending : \E outcome \in {"resolve", "reject"} : Settle(s, outcome)

Next == RegisterStep \/ InputStep \/ SubmitStep \/ SettleStep

Spec == Init /\ [][Next]_vars

\* The same program with the promise of every started onSubmit call settling
\* in the end: while calls are pending, one of them eventually settles (with
\* finitely many calls started, each of them does).
FairSpec == Spec /\ WF_vars(SettleStep)

\* A step that runs a validation pass.  (In the formulas below "A => B" about
\* a step is written B \/ ~A where B is the cheaper test.)
PassStep == InputStep \/ SubmitStep

(***************************************************************************)
(* C1: a submitForm invocation made while a recorded validator entry is a  *)
(* string does not call onSubmit and does not write formState.isLoading,   *)
(* not even transiently.                                                   *)
(***************************************************************************)
C1_InvalidSubmitCallsNothing ==
    [][\A b \in {"throws", "awaits"} :
          (HasStringValidator /\ SubmitForm(b)) =>
              /\ onSubmitCalls' = onSubmitCalls
              /\ isLoadingWrites' = isLoadingWrites
              /\ formState'.isLoading = formState.isLoading
              /\ pending' = pending]_vars

C1_Witness ==
    /\ formState.submitCount = 1
    /\ HasStringValidator
    /\ formState.errors # EmptyMap
    /\ onSubmitCalls = 0
    /\ isLoadingWrites = 0

(***************************************************************************)
(* C2: a submitForm invocation that starts with nothing in flight and      *)
(* passes validation calls onSubmit exactly once; isLoading is true from   *)
(* the call until that handler settles, and false once it has settled.     *)
(***************************************************************************)
C2_LoadingUntilOwnHandlerSettles ==
    [][/\ \A b \in {"throws", "awaits"} :
            (SubmitForm(b) /\ pending = {} /\ ~HasStringValidator) =>
                /\ onSubmitCalls' = onSubmitCalls + 1
                /\ isLoadingWrites' > isLoadingWrites
                /\ (b = "awaits" => formState'.isLoading)
       /\ \A s \in pending :
            (s.alone /\ s \in pending') => formState'.isLoading
       /\ \A s \in pending : \A o \in {"resolve", "reject"} :
            (s.alone /\ Settle(s, o)) => ~formState'.isLoading]_vars

(***************************************************************************)
(* C3: formState.isLoading is true in every state in which an onSubmit     *)
(* call is pending, also when submissions overlap.                         *)
(***************************************************************************)
C3_LoadingWhilePending == pending # {} => formState.isLoading

(***************************************************************************)
(* C4 as stated: after any validation pass, also one that runs before the  *)
(* first submitForm, isValid is true iff formState.errors is empty.        *)
(***************************************************************************)
C4_ValidIffNoErrorsAfterAnyPass ==
    [][\/ formState'.isValid <=> formState'.errors = EmptyMap
       \/ ~PassStep]_vars

(***************************************************************************)
(* C4 as amended: after a validation pass that runs with submitCount > 0,  *)
(* isValid is true iff formState.errors is empty.                          *)
(***************************************************************************)
C4_ValidIffNoErrorsOncePublished ==
    [][\/ formState'.isValid <=> formState'.errors = EmptyMap
       \/ ~(formState'.submitCount > 0 /\ PassStep)]_vars

C4_Witness ==
    /\ formState.submitCount > 0
    /\ formState.isDirty
    /\ ~formState.isValid
    /\ formState.errors # EmptyMap
    /\ pending # {}

(***************************************************************************)
(* C5, on the passes that publish their errors: after the pass, a key      *)
(* whose validator sequence held a string has that string as errors[key],  *)
(* and a key whose sequence held only booleans is not in errors.           *)
(***************************************************************************)
C5_DeclaredMessageIsPublished ==
    [][(PassStep /\ formState'.submitCount > 0) =>
          \A k \in DOMAIN declared :
              /\ declared[k] # {} =>
                    /\ k \in DOMAIN formState'.errors
                    /\ formState'.errors[k] \in declared[k]
              /\ declared[k] = {} => k \notin DOMAIN formState'.errors]_vars

(***************************************************************************)
(* C6: submitCount is the number of submitForm invocations made so far: 0  *)
(* at first, one more per invocation whatever the validation outcome, and  *)
(* changed by nothing else.                                                *)
(***************************************************************************)
C6_SubmitCountCountsInvocations == formState.submitCount = Len(promises)

C6_Witness ==
    /\ formState.submitCount = 2
    /\ onSubmitCalls = 1
    /\ formState.isDirty
    /\ pending = {}

(***************************************************************************)
(* C7: when the handler throws or rejects, the promise of submitForm is    *)
(* fulfilled, isLoading was set on the call and is false afterwards,       *)
(* fields and the rest of formState are as after a handler that resolved,  *)
(* and a later submitForm with passing validators calls onSubmit again.    *)
(***************************************************************************)
C7_HandlerFailureIsSwallowed ==
    [][/\ \A s \in pending :
            Settle(s, "reject") =>
                /\ promises'[s.id] = "fulfilled"
                /\ formState' = [formState EXCEPT !.isLoading = FALSE]
                /\ fields' = fields
       /\ (SubmitForm("throws") /\ ~HasStringValidator) =>
                /\ promises'[Len(promises')] = "fulfilled"
                /\ isLoadingWrites' = isLoadingWrites + 2
                /\ formState' = [formState EXCEPT !.submitCount = @ + 1,
                                                  !.isValid = TRUE,
                                                  !.errors = EmptyMap,
                                                  !.isLoading = FALSE]
                /\ fields' = fields
       /\ \A b \in {"throws", "awaits"} :
            (SubmitForm(b) /\ ~HasStringValidator) =>
                /\ onSubmitCalls' = onSubmitCalls + 1
                /\ (b = "awaits" => formState'.isLoading)]_vars

C7_Witness ==
    /\ consoleErrors = 1
    /\ onSubmitCalls = 2
    /\ \E s \in pending : s.id = 2 /\ s.alone
    /\ promises[1] = "fulfilled"

\* What fields[key] is expected to hold after an input event, for the texts
\* of Texts: the coercion written out case by case.
ExpectedValue(type, text, checked) ==
    CASE type = "checkbox" -> [t |-> "boolean", v |-> checked]
      [] type = "text"     -> [t |-> "string", v |-> text]
      [] type = "number"   ->
            CASE text = <<>>                -> [t |-> "NaN", v |-> 0]
              [] text = <<"4", "2">>        -> [t |-> "number", v |-> 42]
              [] text = <<"4", ".", "7">>   -> [t |-> "number", v |-> 4]

(***************************************************************************)
(* C8: an input event on the element of a key leaves in fields[key] the    *)
(* coerced value of what the element holds (number: the integer parsed     *)
(* from the text; checkbox: the checked flag; otherwise the text) and      *)
(* leaves the other keys alone; no other step changes fields.  An input    *)
(* event leaves its text and checked flag in the element, so they are read *)
(* from the element after the step.                                        *)
(***************************************************************************)
C8_FieldsHoldLastCoercedInput ==
    [][/\ \A key \in DOMAIN refs :
            LET ref == elements'[key]
            IN  \/ ref.value \notin Texts(ref.type)
                \/ /\ key \in DOMAIN fields'
                   /\ fields'[key] = ExpectedValue(ref.type, ref.value, ref.checked)
                   /\ \A k \in Keys \ {key} : Get(fields', k) = Get(fields, k)
                \/ ~Input(key, ref.value, ref.checked)
       /\ \/ fields' = fields
          \/ ~(RegisterStep \/ SubmitStep \/ SettleStep)]_vars

C8_Witness ==
    /\ Get(fields, "username") = [t |-> "string", v |-> <<"a", "b", "c">>]
    /\ Get(fields, "age") = [t |-> "number", v |-> 4]
    /\ formState.touchedFields = <<"age", "username">>

(***************************************************************************)
(* C9: while submitCount is 0, formState.errors is empty whatever was      *)
(* registered and typed, and an input event still recomputes isValid (true *)
(* iff no recorded validator entry is a string).                           *)
(***************************************************************************)
C9_NoErrorsBeforeFirstSubmit ==
    [][/\ formState'.submitCount = 0 => formState'.errors = EmptyMap
       /\ \/ formState'.isValid <=> ~HasStringValidator
          \/ ~(formState.submitCount = 0 /\ InputStep)]_vars

C9_Witness ==
    /\ formState.submitCount = 0
    /\ formState.isDirty
    /\ HasStringValidator
    /\ ~formState.isValid
    /\ formState.errors = EmptyMap

(***************************************************************************)
(* C10 as stated (its "string" part): in every reachable state, every key  *)
(* of formState.errors has a recorded validator entry that is a string.    *)
(***************************************************************************)
C10_ErrorKeysHaveStringValidators ==
    \A k \in DOMAIN formState.errors :
        /\ k \in DOMAIN _validators
        /\ typeof(_validators[k]) = "string"

(***************************************************************************)
(* C10 as amended: right after a validation pass, every key of             *)
(* formState.errors has a recorded validator entry that is a string, and   *)
(* errors[key] is that string (which may be the empty string).             *)
(***************************************************************************)
C10_ErrorKeysHaveStringValidatorsAfterPass ==
    [][\/ \A k \in DOMAIN formState'.errors :
              /\ k \in DOMAIN _validators'
              /\ typeof(_validators'[k]) = "string"
              /\ formState'.errors[k] = _validators'[k].v
       \/ ~PassStep]_vars

C10_Witness ==
    /\ "agree" \in DOMAIN formState.errors
    /\ formState.errors["agree"] = ""
    /\ _validators["agree"] = EmptyMessage
    /\ formState.isDirty

(***************************************************************************)
(* The validator sequence of the scenario of C11, evaluated when register  *)
(* is called: [!fields.username && "Username is required"].  The message   *)
(* of the rule is the one called Required above.                           *)
(***************************************************************************)
UsernameRule(fs) ==
    <<IF Boolean(Get(fs, "username")) THEN Bool(FALSE) ELSE Required>>

\* The states of the scenario: registrations and input events only, no
\* initial values, username registered with the rule as last evaluated.
UsernameScenario ==
    /\ formState.submitCount = 0
    /\ form.initialValues = Undefined
    /\ "username" \in DOMAIN refs
    /\ "username" \in DOMAIN _validators
    /\ <<_validators["username"]>> = UsernameRule(fields)

(***************************************************************************)
(* C11 as stated: in the scenario, an input event with value "abc" leaves  *)
(* fields.username = "abc" and no errors.username; a following input event *)
(* that clears the value leaves errors.username = the rule's message.      *)
(***************************************************************************)
C11_ClearedValueShowsError ==
    [][\A text \in Texts("text") :
          \/ /\ text = <<"a", "b", "c">> =>
                   /\ Get(fields', "username") = Str(text)
                   /\ "username" \notin DOMAIN formState'.errors
             /\ (text = <<>> /\ Get(fields, "username") = Str(<<"a", "b", "c">>)) =>
                   /\ "username" \in DOMAIN formState'.errors
                   /\ formState'.errors["username"] = Required.v
          \/ ~(UsernameScenario /\ Input("username", text, FALSE))]_vars

(***************************************************************************)
(* C11 as amended: in the scenario, an input event with value "abc" leaves *)
(* fields.username = "abc" and no errors.username; a following input event *)
(* that clears the value leaves fields.username = "" and still no          *)
(* errors.username, and re-registering with the rule (now the message)     *)
(* does not add it either.                                                 *)
(***************************************************************************)
C11_ClearedValueShowsNoError ==
    [][/\ \A text \in Texts("text") :
            \/ /\ text = <<"a", "b", "c">> =>
                     /\ Get(fields', "username") = Str(text)
                     /\ "username" \notin DOMAIN formState'.errors
               /\ (text = <<>> /\ Get(fields, "username") = Str(<<"a", "b", "c">>)) =>
                     /\ Get(fields', "username") = Str(<<>>)
                     /\ "username" \notin DOMAIN formState'.errors
            \/ ~(UsernameScenario /\ Input("username", text, FALSE))
       /\ \/ "username" \notin DOMAIN formState'.errors
          \/ ~(/\ formState.submitCount = 0
               /\ Get(fields, "username") = Str(<<>>)
               /\ Register("username", UsernameRule(fields)))]_vars

C11_Witness ==
    /\ UsernameScenario
    /\ fields = [k \in {"username"} |-> Str(<<>>)]
    /\ formState.touchedFields = <<"username">>
    /\ _validators["username"] = Required
    /\ formState.isValid
    /\ formState.errors = EmptyMap

(***************************************************************************)
(* C12: in every reachable state in which no onSubmit call is pending,     *)
(* formState.isLoading is false (isLoading true implies a submission in    *)
(* flight), for every interleaving of submitForm invocations, input events *)
(* and handler completions.                                                *)
(***************************************************************************)
C12_NotLoadingWhenNothingPending == pending = {} => ~formState.isLoading

C12_Witness ==
    /\ pending = {}
    /\ ~formState.isLoading
    /\ onSubmitCalls = 1
    /\ isLoadingWrites = 2
    /\ consoleErrors = 0
    /\ formState.isDirty

(***************************************************************************)
(* C13: when every started onSubmit call eventually settles, isLoading is  *)
(* eventually false after any submission, and no state is terminal: an     *)
(* input event can be delivered to every registered element, and           *)
(* submitForm can be invoked (in the model: as long as fewer than          *)
(* MaxSubmits invocations were made), whatever is pending or has failed.   *)
(***************************************************************************)
C13_LoadingEndsAndFormStaysUsable ==
    /\ formState.isLoading ~> ~formState.isLoading
    /\ [](\A key \in DOMAIN refs :
             ENABLED (\E text \in Texts(ElementType(refs[key])) :
                          Input(key, text, FALSE)))
    /\ [](formState.submitCount < MaxSubmits =>
             \A b \in {"throws", "awaits"} : ENABLED SubmitForm(b))

C13_Witness ==
    /\ Len(promises) = 2
    /\ onSubmitCalls = 2
    /\ consoleErrors = 1
    /\ pending = {}
    /\ ~formState.isLoading
    /\ DOMAIN refs # {}

(***************************************************************************)
(* The earlier variant of createForm: errors is a store of its own and     *)
(* isLoading a signal (held here in formState.errors and                   *)
(* formState.isLoading; the other entries of formState do not exist in it  *)
(* and keep their initial values), register sets oninput and onblur, and   *)
(* there is no submitCount and no seeding of elements.                     *)
(***************************************************************************)
\* _validate(): every pass focuses and every pass publishes its errors.
ValidateEarlier(start) ==
    ValidateLoop(1, TRUE,
                 [errors |-> EmptyMap, firstErrorKey |-> NoElement, focused |-> start])

RegisterEarlier(key, validators) ==
    LET instance == ElementOf(key)
        vs       == IF validators # NoValidators
                    THEN RecordValidators(_validators, key, validators)
                    ELSE _validators
    IN  /\ refs' = Put(refs, key, instance)
        /\ _validators' = vs
        /\ vorder' = IF key \in DOMAIN vs /\ ~Includes(vorder, key)
                     THEN Append(vorder, key) ELSE vorder
        /\ UNCHANGED <<form, elements, focused, fields, formState, pending, promises,
                       onSubmitCalls, consoleErrors, isLoadingWrites, declared>>

\* instance.oninput = () => _setAdequateValue(instance)
InputEarlier(key, text, checked) ==
    /\ key \in DOMAIN refs
    /\ LET instance == refs[key]
           ref      == [elements[instance] EXCEPT !.value = text, !.checked = checked]
       IN  /\ elements' = [elements EXCEPT ![instance] = ref]
           /\ fields' = Put(fields, key, AdequateValue(ref))
    /\ UNCHANGED <<form, refs, focused, _validators, vorder, formState, pending,
                   promises, onSubmitCalls, consoleErrors, isLoadingWrites, declared>>

\* !errors[key]: no error is held for the key, or the empty string is.
BlurValidates(key) ==
    key \notin DOMAIN formState.errors \/ formState.errors[key] = ""

\* instance.onblur = () => !errors[key] && _validate(): the element bound to
\* key loses the focus the user gave it.
BlurEarlier(key) ==
    /\ key \in DOMAIN refs
    /\ IF BlurValidates(key)
       THEN LET run == ValidateEarlier(NoElement)
            IN  /\ formState' = [formState EXCEPT !.errors = reconcile(@, run.errors)]
                /\ focused' = run.focused
       ELSE /\ focused' = NoElement
            /\ UNCHANGED formState
    /\ UNCHANGED <<form, refs, elements, _validators, vorder, fields, pending,
                   promises, onSubmitCalls, consoleErrors, isLoadingWrites, declared>>

SubmitFormEarlier(behaviour) ==
    /\ Len(promises) < MaxSubmits
    /\ LET run     == ValidateEarlier(focused)
           checked == [formState EXCEPT !.errors = reconcile(@, run.errors)]
       IN  /\ focused' = run.focused
           /\ IF ~IsFormValid(run.errors)
              THEN /\ formState' = checked
                   /\ promises' = Append(promises, "fulfilled")
                   /\ UNCHANGED <<pending, onSubmitCalls, consoleErrors, isLoadingWrites>>
              ELSE IF behaviour = "throws"
              THEN /\ formState' = Finally([checked EXCEPT !.isLoading = TRUE])
                   /\ isLoadingWrites' = isLoadingWrites + 2
                   /\ promises' = Append(promises, SubmitPromise("throw"))
                   /\ onSubmitCalls' = onSubmitCalls + 1
                   /\ consoleErrors' = consoleErrors + Caught("throw")
                   /\ UNCHANGED pending
              ELSE /\ formState' = [checked EXCEPT !.isLoading = TRUE]
                   /\ isLoadingWrites' = isLoadingWrites + 1
                   /\ promises' = Append(promises, "pending")
                   /\ onSubmitCalls' = onSubmitCalls + 1
                   /\ pending' = pending \cup
                        {[id |-> Len(promises) + 1, alone |-> pending = {}]}
                   /\ UNCHANGED consoleErrors
    /\ UNCHANGED <<form, refs, elements, _validators, vorder, fields, declared>>

RegisterEarlierStep ==
    \E key \in form.keys : \E validators \in ValidatorSeqs(key) :
        RegisterEarlier(key, validators)

InputEarlierStep ==
    \E key \in DOMAIN refs : \E text \in Texts(ElementType(refs[key])) :
        \E checked \in (IF ElementType(refs[key]) = "checkbox" THEN BOOLEAN ELSE {FALSE}) :
            InputEarlier(key, text, checked)

BlurEarlierStep == \E key \in DOMAIN refs : BlurEarlier(key)

SubmitEarlierStep == \E behaviour \in {"throws", "awaits"} : SubmitFormEarlier(behaviour)

NextEarlier ==
    RegisterEarlierStep \/ InputEarlierStep \/ BlurEarlierStep \/ SubmitEarlierStep
    \/ SettleStep

SpecEarlier == Init /\ [][NextEarlier]_vars

\* The errors a validation pass computes from the recorded validators.
StringEntries(vs) ==
    [k \in {x \in DOMAIN vs : typeof(vs[x]) = "string"} |-> vs[k].v]

(***************************************************************************)
(* C14: in the earlier variant, every blur event on a registered element   *)
(* runs a validation pass: after it, errors is what the currently recorded *)
(* validators give.                                                        *)
(***************************************************************************)
C14_EveryBlurValidates ==
    [][\/ formState'.errors = StringEntries(_validators)
       \/ ~BlurEarlierStep]_vars

\* The positions of the string entries of a validator sequence.
StringPositions(validators) ==
    {i \in 1..Len(validators) : typeof(validators[i]) = "string"}

\* The last string entry of a sequence that holds one.
LastString(validators) ==
    validators[CHOOSE i \in StringPositions(validators) :
                   \A j \in StringPositions(validators) : j <= i]

(***************************************************************************)
(* C15: when the ref callback of register receives a validator sequence    *)
(* that holds a string, the entry recorded for the key is the last string  *)
(* of the sequence, also when boolean entries follow it.                   *)
(***************************************************************************)
C15_LastStringIsRecorded ==
    [][\A key \in form.keys : \A validators \in ValidatorSeqs(key) :
          \/ validators = NoValidators
          \/ StringPositions(validators) = {}
          \/ ~Register(key, validators)
          \/ _validators'[key] = LastString(validators)]_vars

(***************************************************************************)
(* C16: whenever a validation pass completes with submitCount > 0 (also    *)
(* the pass of the very first submitForm, which counts before it           *)
(* validates), formState.errors is exactly the mapping key -> recorded     *)
(* validator entry over the keys whose entry is a string: keys with        *)
(* boolean entries are absent and errors of earlier passes that no longer  *)
(* fail are removed.                                                       *)
(***************************************************************************)
C16_ErrorsAreExactlyTheStringEntries ==
    [][\/ formState'.errors = StringEntries(_validators')
       \/ ~(formState'.submitCount > 0 /\ PassStep)]_vars

\* The only submitForm so far failed validation (it published an error), and
\* a later input pass left errors empty.
C16_Witness ==
    /\ formState.submitCount = 1
    /\ onSubmitCalls = 0
    /\ formState.isDirty
    /\ formState.errors = EmptyMap
    /\ formState.isValid
    /\ DOMAIN _validators # {}

\* The first key, in the order the keys entered _validators, whose recorded
\* entry is a string (there is one when HasStringValidator holds).
FirstFailingKey ==
    vorder[CHOOSE i \in 1..Len(vorder) :
              /\ typeof(_validators[vorder[i]]) = "string"
              /\ \A j \in 1..(i - 1) : typeof(_validators[vorder[j]]) # "string"]

(***************************************************************************)
(* C17: the focusing pass of submitForm, when some recorded entry is a     *)
(* string, ends with DOM focus on the element bound to the first failing   *)
(* key in validator registration order; a focusing pass that finds no      *)
(* error, and the non-focusing pass of every input event, leave the focus  *)
(* where it was.                                                           *)
(***************************************************************************)
C17_FocusGoesToFirstFailingKey ==
    [][/\ \/ focused' = IF HasStringValidator THEN refs[FirstFailingKey] ELSE focused
          \/ ~SubmitStep
       /\ \/ focused' = focused
          \/ ~InputStep]_vars

C17_Witness ==
    /\ vorder = <<"username", "age">>
    /\ typeof(_validators["username"]) = "boolean"
    /\ typeof(_validators["age"]) = "string"
    /\ focused = refs["age"]
    /\ formState.submitCount = 1
    /\ formState.isDirty

\* initialValues[name] exists.
HasInitialValue(key) ==
    /\ form.initialValues # Undefined
    /\ key \in DOMAIN form.initialValues.v

(***************************************************************************)
(* C18: on ref attachment for a name, the bound element is seeded from     *)
(* initialValues[name] (checkbox: checked; otherwise the stringified       *)
(* value) only if initialValues[name] exists; when initialValues is not    *)
(* supplied or has no entry for the name, registration leaves the          *)
(* element's value and checked state unchanged.  Registration never        *)
(* changes fields.                                                         *)
(***************************************************************************)
C18_SeedsOnlyExistingInitialValues ==
    [][\A key \in form.keys :
          LET ref == elements[ElementOf(key)]
          IN  \/ /\ fields' = fields
                 /\ elements'[ElementOf(key)] =
                       IF ~HasInitialValue(key) THEN ref
                       ELSE IF ref.type = "checkbox"
                            THEN [ref EXCEPT !.checked = Boolean(form.initialValues.v[key])]
                            ELSE [ref EXCEPT !.value = String(form.initialValues.v[key])]
              \/ ~(\E validators \in ValidatorSeqs(key) : Register(key, validators))]_vars

\* The names held by a sequence of names.
Names(seq) == {seq[i] : i \in 1..Len(seq)}

(***************************************************************************)
(* C19: touchedFields holds, without duplicates, exactly the names that    *)
(* have received an input event, and isDirty is true iff an input event    *)
(* has occurred: both start empty/false, an input event on a name adds the *)
(* name (once) and sets isDirty, and register, submitForm and the          *)
(* completion of onSubmit change neither; so touchedFields never shrinks   *)
(* and isDirty never returns to false.                                     *)
(***************************************************************************)
C19_TouchedAndDirtyFollowInputs ==
    /\ formState.touchedFields = <<>> /\ ~formState.isDirty
    /\ [][/\ Cardinality(Names(formState'.touchedFields)) = Len(formState'.touchedFields)
          /\ formState'.isDirty <=> formState'.touchedFields # <<>>
          /\ \A key \in DOMAIN refs :
                \/ /\ Names(formState'.touchedFields) =
                         Names(formState.touchedFields) \cup {key}
                   /\ formState'.isDirty
                \/ ~Input(key, elements'[refs[key]].value, elements'[refs[key]].checked)
          /\ \/ /\ formState'.touchedFields = formState.touchedFields
                /\ formState'.isDirty = formState.isDirty
             \/ ~(RegisterStep \/ SubmitStep \/ SettleStep)]_vars

C19_Witness ==
    /\ formState.touchedFields = <<"username", "age">>
    /\ formState.isDirty
    /\ formState.submitCount = 2
    /\ onSubmitCalls = 1
    /\ pending = {}

(***************************************************************************)
(* C20: formState.dirtyFields is the set of names interacted with: after   *)
(* an input event on the element registered for a name, the name is a      *)
(* member of formState.dirtyFields.                                        *)
(***************************************************************************)
C20_InputMakesFieldDirty ==
    [][\A key \in DOMAIN refs :
          \/ Includes(formState'.dirtyFields, key)
          \/ ~Input(key, elements'[refs[key]].value, elements'[refs[key]].checked)]_vars

====
